---- MODULE Spec2Model ----
(***************************************************************************)
(* Model of the matching engine: the POST /order handler (main.cpp), the   *)
(* engine controller (MatchingEngine.h) and the per-symbol price-time      *)
(* priority order book (OrderBook.h, Order.h, Trade.h).                    *)
(*                                                                         *)
(* Prices and quantities are doubles in the source; the model draws them   *)
(* from small integer ranges, on which the double arithmetic used by the   *)
(* book (comparison, min, subtraction, addition) is exact.                 *)
(*                                                                         *)
(* Spec     : one request handler on an engine without subscribers.        *)
(* SpecDeep : one request handler and new subscribers, on a book of more   *)
(*            levels than a depth message lists.                           *)
(* SpecConc : two request threads and new subscribers, step by step on the *)
(*            shared engine state.                                         *)
(* SpecConcFair : two request threads, each scheduled in the end, and new  *)
(*                subscribers, with requests for one symbol and price.     *)
(* SpecSymbols  : one request handler, requests for two symbols.           *)
(* SpecBatch    : two request threads and new subscribers on a book that   *)
(*                already holds three sell orders.                         *)
(***************************************************************************)
EXTENDS Integers, Sequences, FiniteSets, TLC

\* ------------------------------------------------------------------ bounds
MaxOrders == 3
MaxPrice == 2
MaxQty == 2

Symbols == {"BTC-USDT"}
Types == {"Market", "Limit", "IOC", "FOK"}
Sides == {"Buy", "Sell"}
Prices == 1..MaxPrice
Qtys == 0..MaxQty

VARIABLES
    order_books_,    \* MatchingEngine::order_books_ : symbol -> [bids_, asks_]
    next_order_id_,  \* Order::next_order_id_
    next_trade_id,   \* Trade::next_trade_id
    pc,              \* position of the request handler
    order,           \* the Order built by the handler, mutated by matching
    quantity,        \* the handler's local copy of the requested quantity
    trades,          \* the std::vector<Trade> processOrder is filling
    old_asks_depth,  \* MatchingEngine::process: depth of the asks before the call
    old_bids_depth,  \* MatchingEngine::process: depth of the bids before the call
    trade_sinks_,    \* MatchingEngine::trade_sinks_ : sinks in registration order
    market_data_sinks_, \* MatchingEngine::market_data_sinks_
    written,         \* sink -> what sink->write() was handed during this call
    cout,            \* the broadcasts of this call, as std::cout lists them
    mtx_,            \* MatchingEngine::mtx_ : 0 when free, else the thread holding it
    threads          \* request threads running at once: thread -> its handler's locals

engine == <<old_asks_depth, old_bids_depth, trade_sinks_, market_data_sinks_,
            written, cout>>
sinks == <<trade_sinks_, market_data_sinks_, written>>
handler == <<pc, order, quantity, trades, old_asks_depth, old_bids_depth>>
conc == <<mtx_, threads>>

vars == <<order_books_, next_order_id_, next_trade_id, pc, order, quantity, trades,
          old_asks_depth, old_bids_depth, trade_sinks_, market_data_sinks_,
          written, cout, mtx_, threads>>

\* ----------------------------------------------------------------- helpers
Min(S) == CHOOSE x \in S : \A y \in S : x <= y
Max(S) == CHOOSE x \in S : \A y \in S : x >= y
min(a, b) == IF b < a THEN b ELSE a

RECURSIVE SumQty(_)
SumQty(s) == IF s = <<>> THEN 0 ELSE Head(s).quantity + SumQty(Tail(s))

RECURSIVE SideQty(_)
SideQty(m) ==
    IF DOMAIN m = {} THEN 0
    ELSE LET p == Min(DOMAIN m)
         IN SumQty(m[p]) + SideQty([q \in DOMAIN m \ {p} |-> m[q]])

\* ------------------------------------------------------------------- Order
NoOrder == [orderID |-> 0, type |-> "None", side |-> "None",
            price |-> 0, quantity |-> 0, symbol |-> "None"]

Order(id, type, side, qty, symbol, price) ==
    [orderID |-> id, type |-> type, side |-> side,
     price |-> price, quantity |-> qty, symbol |-> symbol]

\* The request threads of the concurrent specification, and one at rest.
Threads == {1, 2}

NoThread == [pc |-> "idle", order |-> NoOrder, trades |-> <<>>,
             old_asks_depth |-> <<>>, old_bids_depth |-> <<>>,
             channel |-> "none", msgs |-> <<>>, si |-> 0, failed |-> {}]

\* Variant: the guard excludes the exact fill.
reduceQuantityStrict(o, amount) ==
    IF amount < o.quantity THEN [o EXCEPT !.quantity = @ - amount] ELSE o

reduceQuantity(o, amount) ==
    IF amount <= o.quantity THEN [o EXCEPT !.quantity = @ - amount] ELSE o

\* ------------------------------------------------------------------- Trade
\* Variant: the maker and taker ids are stored the other way round.
TradeSwappedIds(id, maker_id, taker_id, p, q, aggressor, sym) ==
    [tradeID |-> id, makerOrderID |-> taker_id, takerOrderID |-> maker_id,
     price |-> p, quantity |-> q, aggressorSide |-> aggressor, symbol |-> sym]

Trade(id, maker_id, taker_id, p, q, aggressor, sym) ==
    [tradeID |-> id, makerOrderID |-> maker_id, takerOrderID |-> taker_id,
     price |-> p, quantity |-> q, aggressorSide |-> aggressor, symbol |-> sym]

\* --------------------------------------------------------------- OrderBook
EmptyBook == [bids_ |-> <<>>, asks_ |-> <<>>]

\* std::map::begin(): lowest key of asks_, highest key of bids_ (std::greater).
asksBegin(asks) == Min(DOMAIN asks)
bidsBegin(bids) == Max(DOMAIN bids)

\* std::map::erase(it)
erase(m, k) == [p \in DOMAIN m \ {k} |-> m[p]]

\* Variant: the order goes to the front of its level's queue.
push_front(m, k, o) ==
    [p \in DOMAIN m \cup {k} |->
        IF p \in DOMAIN m
        THEN (IF p = k THEN <<o>> \o m[p] ELSE m[p])
        ELSE <<o>>]

\* m[k].push_back(o): operator[] creates the level when it is absent.
push_back(m, k, o) ==
    [p \in DOMAIN m \cup {k} |->
        IF p \in DOMAIN m
        THEN (IF p = k THEN Append(m[p], o) ELSE m[p])
        ELSE <<o>>]

\* Variant: the sides are taken the wrong way round.
addLimitOrderWrongSide(book, o) ==
    IF o.side = "Buy"
    THEN [book EXCEPT !.asks_ = push_back(@, o.price, o)]
    ELSE [book EXCEPT !.bids_ = push_back(@, o.price, o)]

addLimitOrder(book, o) ==
    IF o.side = "Buy"
    THEN [book EXCEPT !.bids_ = push_back(@, o.price, o)]
    ELSE [book EXCEPT !.asks_ = push_back(@, o.price, o)]

\* Variant: a buy limit equal to the ask already breaks.
BuyBreakLE(buyOrder, restingAsk) ==
    buyOrder.type = "Limit" /\ buyOrder.price <= restingAsk.price

\* Variant: the sell comparison is turned round.
SellBreakFlipped(sellOrder, restingBid) ==
    sellOrder.type = "Limit" /\ sellOrder.price < restingBid.price

\* The price test of the matching loops: it looks at the Limit type only.
BuyBreak(buyOrder, restingAsk) ==
    buyOrder.type = "Limit" /\ buyOrder.price < restingAsk.price

SellBreak(sellOrder, restingBid) ==
    sellOrder.type = "Limit" /\ sellOrder.price > restingBid.price

\* Variant: the loop condition also holds the taker to its price field.
BuyLoopPriced(buyOrder, asks) ==
    /\ buyOrder.quantity > 0
    /\ DOMAIN asks # {}
    /\ buyOrder.price >= Head(asks[asksBegin(asks)]).price

\* The conditions under which the matching loops run one more iteration.
BuyLoop(buyOrder, asks) ==
    /\ buyOrder.quantity > 0
    /\ DOMAIN asks # {}
    /\ ~BuyBreak(buyOrder, Head(asks[asksBegin(asks)]))

SellLoop(sellOrder, bids) ==
    /\ sellOrder.quantity > 0
    /\ DOMAIN bids # {}
    /\ ~SellBreak(sellOrder, Head(bids[bidsBegin(bids)]))

\* The level test of canFOKfill: whether a price level is skipped.
FOKSkipAsk(o, price_level) == o.type = "Limit" /\ price_level > o.price
FOKSkipBid(o, price_level) == o.type = "Limit" /\ price_level < o.price

\* canFOKfill's loop over asks_ (ascending), with its early return.
RECURSIVE canFOKfillBuy(_, _, _)
canFOKfillBuy(o, asks, quantity_available) ==
    IF DOMAIN asks = {} THEN quantity_available >= o.quantity
    ELSE LET price_level == asksBegin(asks)
             rest == erase(asks, price_level)
         IN IF FOKSkipAsk(o, price_level)
            THEN canFOKfillBuy(o, rest, quantity_available)
            ELSE LET avail == quantity_available + SumQty(asks[price_level])
                 IN IF avail >= o.quantity THEN TRUE
                    ELSE canFOKfillBuy(o, rest, avail)

\* canFOKfill's loop over bids_ (descending), with its early return.
RECURSIVE canFOKfillSell(_, _, _)
canFOKfillSell(o, bids, quantity_available) ==
    IF DOMAIN bids = {} THEN quantity_available >= o.quantity
    ELSE LET price_level == bidsBegin(bids)
             rest == erase(bids, price_level)
         IN IF FOKSkipBid(o, price_level)
            THEN canFOKfillSell(o, rest, quantity_available)
            ELSE LET avail == quantity_available + SumQty(bids[price_level])
                 IN IF avail >= o.quantity THEN TRUE
                    ELSE canFOKfillSell(o, rest, avail)

\* Variant: the pre-check lets every order through.
canFOKfillNoCheck(book, o) == TRUE

canFOKfill(book, o) ==
    IF o.side = "Buy"
    THEN canFOKfillBuy(o, book.asks_, 0)
    ELSE canFOKfillSell(o, book.bids_, 0)

\* Variant: a head that is used up stays in its queue.
popFilledNoPop(m, k, resting) ==
    [m EXCEPT ![k] = <<resting>> \o Tail(m[k])]

\* After a fill: pop the head when it is used up, erase the level when empty.
popFilled(m, k, resting) ==
    LET queue == IF resting.quantity = 0
                 THEN Tail(m[k])
                 ELSE <<resting>> \o Tail(m[k])
    IN IF queue = <<>> THEN erase(m, k) ELSE [m EXCEPT ![k] = queue]

\* Variant: every type but Market rests its residual.
shouldRestNotMarket(o) == o.quantity > 0 /\ o.type # "Market"

\* The residual test of processOrder: only a Limit order with quantity left rests.
shouldRest(o) == o.quantity > 0 /\ o.type = "Limit"

\* Variant: the taker's quantity is not reduced by the fill.
matchBuyOrderBodyKeepTaker(buyOrder, asks, ts, tid) ==
    LET bestAsk == asksBegin(asks)
        restingAsk == Head(asks[bestAsk])
        tradeQuantity == min(buyOrder.quantity, restingAsk.quantity)
    IN [order |-> buyOrder,
        levels |-> popFilled(asks, bestAsk, reduceQuantity(restingAsk, tradeQuantity)),
        trades |-> Append(ts, Trade(tid, restingAsk.orderID, buyOrder.orderID,
                                    restingAsk.price, tradeQuantity, "Buy",
                                    restingAsk.symbol)),
        tid |-> tid + 1]

\* The body of matchBuyOrder's loop, on (taker, asks_, trades, next_trade_id).
matchBuyOrderBody(buyOrder, asks, ts, tid) ==
    LET bestAsk == asksBegin(asks)
        restingAsk == Head(asks[bestAsk])
        tradeQuantity == min(buyOrder.quantity, restingAsk.quantity)
    IN [order |-> reduceQuantity(buyOrder, tradeQuantity),
        levels |-> popFilled(asks, bestAsk, reduceQuantity(restingAsk, tradeQuantity)),
        trades |-> Append(ts, Trade(tid, restingAsk.orderID, buyOrder.orderID,
                                    restingAsk.price, tradeQuantity, "Buy",
                                    restingAsk.symbol)),
        tid |-> tid + 1]

\* The body of matchSellOrder's loop, on (taker, bids_, trades, next_trade_id).
matchSellOrderBody(sellOrder, bids, ts, tid) ==
    LET bestBid == bidsBegin(bids)
        restingBid == Head(bids[bestBid])
        tradeQuantity == min(sellOrder.quantity, restingBid.quantity)
    IN [order |-> reduceQuantity(sellOrder, tradeQuantity),
        levels |-> popFilled(bids, bestBid, reduceQuantity(restingBid, tradeQuantity)),
        trades |-> Append(ts, Trade(tid, restingBid.orderID, sellOrder.orderID,
                                    restingBid.price, tradeQuantity, "Sell",
                                    restingBid.symbol)),
        tid |-> tid + 1]

\* matchBuyOrder run to the end of its loop.
RECURSIVE matchBuyOrderRun(_, _, _, _)
matchBuyOrderRun(buyOrder, asks, ts, tid) ==
    IF BuyLoop(buyOrder, asks)
    THEN LET r == matchBuyOrderBody(buyOrder, asks, ts, tid)
         IN matchBuyOrderRun(r.order, r.levels, r.trades, r.tid)
    ELSE [order |-> buyOrder, levels |-> asks, trades |-> ts, tid |-> tid]

\* matchSellOrder run to the end of its loop.
RECURSIVE matchSellOrderRun(_, _, _, _)
matchSellOrderRun(sellOrder, bids, ts, tid) ==
    IF SellLoop(sellOrder, bids)
    THEN LET r == matchSellOrderBody(sellOrder, bids, ts, tid)
         IN matchSellOrderRun(r.order, r.levels, r.trades, r.tid)
    ELSE [order |-> sellOrder, levels |-> bids, trades |-> ts, tid |-> tid]

\* ------------------------------------------------------------ serialization
\* The number of levels MatchingEngine asks getBookDepthAsJson for.
TopN == 10

\* std::to_string(double) formats with "%f": six decimals, rounded to nearest.
\* A price or quantity x of the model stands for the double x * 2^-21 (about
\* 0.48 millionths), on which the book's arithmetic is exact; the string is
\* represented by the number of millionths it spells:
\* round(x * 10^6 / 2^21) = round(x * 15625 / 32768).
to_string(x) == (x * 15625 + 16384) \div 32768

\* OrderBook::getBookDepthAsJson, the loop over one side from its begin():
\* stops after n levels, sums the quantities of a level, formats both numbers.
RECURSIVE depthLoop(_, _, _, _)
depthLoop(m, side, n, count) ==
    IF DOMAIN m = {} \/ count >= n THEN <<>>
    ELSE LET price == IF side = "Buy" THEN bidsBegin(m) ELSE asksBegin(m)
             total_quantity == SumQty(m[price])
         IN <<<<to_string(price), to_string(total_quantity)>>>>
               \o depthLoop(erase(m, price), side, n, count + 1)

\* Variant: the loop stops one level early.
getBookDepthAsJsonShort(b, n, side) ==
    depthLoop(IF side = "Buy" THEN b.bids_ ELSE b.asks_, side, n - 1, 0)

getBookDepthAsJson(b, n, side) ==
    depthLoop(IF side = "Buy" THEN b.bids_ ELSE b.asks_, side, n, 0)

\* json::dump() of a depth array: the text of the pairs, one after the other.
RECURSIVE dump(_)
dump(j) == IF j = <<>> THEN <<>> ELSE <<j[1][1], j[1][2]>> \o dump(Tail(j))

\* Variant: the two prices are stored the other way round.
getBBOSwapped(b) ==
    IF DOMAIN b.bids_ = {} \/ DOMAIN b.asks_ = {} THEN <<>>
    ELSE <<asksBegin(b.asks_), bidsBegin(b.bids_)>>

\* OrderBook::getBBO: <<>> for a false return, else <<bestBid, bestAsk>>.
getBBO(b) ==
    IF DOMAIN b.bids_ = {} \/ DOMAIN b.asks_ = {} THEN <<>>
    ELSE <<bidsBegin(b.bids_), asksBegin(b.asks_)>>

\* A json value that is null, or a number.
Null == <<>>
Number(x) == <<x>>

\* broadcast_trades: the json of one trade.
trade_json(trade) ==
    [type |-> "trade", trade_id |-> trade.tradeID, symbol |-> trade.symbol,
     price |-> trade.price, quantity |-> trade.quantity,
     aggressor_side |-> IF trade.aggressorSide = "Buy" THEN "buy" ELSE "sell",
     maker_order_id |-> trade.makerOrderID, taker_order_id |-> trade.takerOrderID]

\* broadcast_market_data: the json of the book's state.
data_json(symbol, b) ==
    LET bbo == getBBO(b)
    IN [type |-> "l2update", symbol |-> symbol,
        best_bid |-> IF bbo # <<>> THEN Number(bbo[1]) ELSE Null,
        best_ask |-> IF bbo # <<>> THEN Number(bbo[2]) ELSE Null,
        bids |-> getBookDepthAsJson(b, TopN, "Buy"),
        asks |-> getBookDepthAsJson(b, TopN, "Sell")]

\* Variant: the trade list is walked from its end.
RECURSIVE trade_messages_reversed(_)
trade_messages_reversed(ts) ==
    IF ts = <<>> THEN <<>>
    ELSE trade_messages_reversed(Tail(ts)) \o <<trade_json(Head(ts))>>

\* The messages broadcast_trades builds, in the order of its loop.
RECURSIVE trade_messages(_)
trade_messages(ts) ==
    IF ts = <<>> THEN <<>> ELSE <<trade_json(Head(ts))>> \o trade_messages(Tail(ts))

\* "for (auto sink : sinks_) sink->write(msg)" for each message in turn: every
\* sink of the list is handed every message, in order.
write_all(w, sinks_, msgs) ==
    [s \in DOMAIN w |->
        IF \E i \in 1..Len(sinks_) : sinks_[i] = s THEN w[s] \o msgs ELSE w[s]]

\* Variant: only the bids are compared.
depth_changed_bids(old_asks, old_bids, b) ==
    dump(old_bids) # dump(getBookDepthAsJson(b, TopN, "Buy"))

\* Variant: only the asks are compared.
depth_changed_asks(old_asks, old_bids, b) ==
    dump(old_asks) # dump(getBookDepthAsJson(b, TopN, "Sell"))

\* process, lines 78-79: the depth arrays differ as dumped text.
depth_changed(old_asks, old_bids, b) ==
    \/ dump(old_asks) # dump(getBookDepthAsJson(b, TopN, "Sell"))
    \/ dump(old_bids) # dump(getBookDepthAsJson(b, TopN, "Buy"))

\* ------------------------------------------------------------------ state
Init ==
    /\ order_books_ = <<>>
    /\ next_order_id_ = 1
    /\ next_trade_id = 1
    /\ pc = "idle"
    /\ order = NoOrder
    /\ quantity = 0
    /\ trades = <<>>
    /\ old_asks_depth = <<>>
    /\ old_bids_depth = <<>>
    /\ trade_sinks_ = <<>>
    /\ market_data_sinks_ = <<>>
    /\ written = <<>>
    /\ cout = <<>>
    /\ mtx_ = 0
    /\ threads = [t \in Threads |-> NoThread]

\* The OrderBook& the engine hands to processOrder.
book == order_books_[order.symbol]

\* order_handler: parse the request and construct the Order.
order_handler(symbol, type, side, qty, price) ==
    /\ pc = "idle"
    /\ order' = Order(next_order_id_, type, side, qty, symbol, price)
    /\ next_order_id_' = next_order_id_ + 1
    /\ quantity' = qty
    /\ pc' = "process"
    /\ UNCHANGED <<order_books_, next_trade_id, trades>>
    /\ UNCHANGED engine
    /\ UNCHANGED conc

\* Variant: the map is left holding the book of the order's symbol only.
process_forgets ==
    /\ pc = "process"
    /\ order_books_' =
         [s \in {order.symbol} |->
             IF s \in DOMAIN order_books_ THEN order_books_[s] ELSE EmptyBook]
    /\ old_asks_depth' = getBookDepthAsJson(order_books_'[order.symbol], TopN, "Sell")
    /\ old_bids_depth' = getBookDepthAsJson(order_books_'[order.symbol], TopN, "Buy")
    /\ pc' = "processOrder"
    /\ UNCHANGED <<next_order_id_, next_trade_id, order, quantity, trades>>
    /\ UNCHANGED <<sinks, cout>>
    /\ UNCHANGED conc

\* MatchingEngine::process: order_books_[symbol] creates the book if absent;
\* the depth of both sides is taken before the order is processed.
process ==
    /\ pc = "process"
    /\ order_books_' =
         IF order.symbol \in DOMAIN order_books_ THEN order_books_
         ELSE [s \in DOMAIN order_books_ \cup {order.symbol} |->
                  IF s = order.symbol THEN EmptyBook ELSE order_books_[s]]
    /\ old_asks_depth' = getBookDepthAsJson(order_books_'[order.symbol], TopN, "Sell")
    /\ old_bids_depth' = getBookDepthAsJson(order_books_'[order.symbol], TopN, "Buy")
    /\ pc' = "processOrder"
    /\ UNCHANGED <<next_order_id_, next_trade_id, order, quantity, trades>>
    /\ UNCHANGED <<sinks, cout>>
    /\ UNCHANGED conc

\* OrderBook::processOrder, entry: the FOK pre-check.
processOrder ==
    /\ pc = "processOrder"
    /\ trades' = <<>>
    /\ pc' = IF order.type = "FOK" /\ ~canFOKfill(book, order)
             THEN "return" ELSE "match"
    /\ UNCHANGED <<order_books_, next_order_id_, next_trade_id, order, quantity>>
    /\ UNCHANGED engine
    /\ UNCHANGED conc

\* One iteration of matchBuyOrder's loop.
matchBuyOrder ==
    /\ pc = "match"
    /\ order.side = "Buy"
    /\ BuyLoop(order, book.asks_)
    /\ LET r == matchBuyOrderBody(order, book.asks_, trades, next_trade_id)
       IN /\ trades' = r.trades
          /\ next_trade_id' = r.tid
          /\ order' = r.order
          /\ order_books_' = [order_books_ EXCEPT ![order.symbol].asks_ = r.levels]
    /\ UNCHANGED <<next_order_id_, pc, quantity>>
    /\ UNCHANGED engine
    /\ UNCHANGED conc

\* matchBuyOrder's loop ends: nothing left, no asks, or the price test breaks.
matchBuyOrderEnd ==
    /\ pc = "match"
    /\ order.side = "Buy"
    /\ ~BuyLoop(order, book.asks_)
    /\ pc' = "rest"
    /\ UNCHANGED <<order_books_, next_order_id_, next_trade_id, order, quantity, trades>>
    /\ UNCHANGED engine
    /\ UNCHANGED conc

\* One iteration of matchSellOrder's loop.
matchSellOrder ==
    /\ pc = "match"
    /\ order.side = "Sell"
    /\ SellLoop(order, book.bids_)
    /\ LET r == matchSellOrderBody(order, book.bids_, trades, next_trade_id)
       IN /\ trades' = r.trades
          /\ next_trade_id' = r.tid
          /\ order' = r.order
          /\ order_books_' = [order_books_ EXCEPT ![order.symbol].bids_ = r.levels]
    /\ UNCHANGED <<next_order_id_, pc, quantity>>
    /\ UNCHANGED engine
    /\ UNCHANGED conc

\* matchSellOrder's loop ends.
matchSellOrderEnd ==
    /\ pc = "match"
    /\ order.side = "Sell"
    /\ ~SellLoop(order, book.bids_)
    /\ pc' = "rest"
    /\ UNCHANGED <<order_books_, next_order_id_, next_trade_id, order, quantity, trades>>
    /\ UNCHANGED engine
    /\ UNCHANGED conc

\* processOrder after matching: only a Limit order with a residual rests.
processOrderRest ==
    /\ pc = "rest"
    /\ order_books_' =
         IF shouldRest(order)
         THEN [order_books_ EXCEPT ![order.symbol] = addLimitOrder(@, order)]
         ELSE order_books_
    /\ pc' = "return"
    /\ UNCHANGED <<next_order_id_, next_trade_id, order, quantity, trades>>
    /\ UNCHANGED engine
    /\ UNCHANGED conc

\* MatchingEngine::process after processOrder: broadcast_trades is called
\* when there are trades; it writes each trade, in the order of the list, to
\* std::cout and to every trade sink.
broadcast_trades ==
    /\ pc = "return"
    /\ LET msgs == IF trades # <<>> THEN trade_messages(trades) ELSE <<>>
       IN /\ cout' = cout \o msgs
          /\ written' = write_all(written, trade_sinks_, msgs)
    /\ pc' = "depth"
    /\ UNCHANGED <<order_books_, next_order_id_, next_trade_id, order, quantity, trades,
                   old_asks_depth, old_bids_depth, trade_sinks_, market_data_sinks_>>
    /\ UNCHANGED conc

\* MatchingEngine::process, the end: the depth is taken again, and when either
\* side's dump differs from the one taken before, broadcast_market_data
\* writes the book's state to std::cout and to every market data sink.
broadcast_market_data ==
    /\ pc = "depth"
    /\ LET msgs == IF depth_changed(old_asks_depth, old_bids_depth, book)
                   THEN <<data_json(order.symbol, book)>> ELSE <<>>
       IN /\ cout' = cout \o msgs
          /\ written' = write_all(written, market_data_sinks_, msgs)
    /\ pc' = "respond"
    /\ UNCHANGED <<order_books_, next_order_id_, next_trade_id, order, quantity, trades,
                   old_asks_depth, old_bids_depth, trade_sinks_, market_data_sinks_>>
    /\ UNCHANGED conc

\* order_handler: the response is written and the locals go out of scope.
respond ==
    /\ pc = "respond"
    /\ pc' = "idle"
    /\ order' = NoOrder
    /\ quantity' = 0
    /\ trades' = <<>>
    /\ old_asks_depth' = <<>>
    /\ old_bids_depth' = <<>>
    /\ cout' = <<>>
    /\ written' = [s \in DOMAIN written |-> <<>>]
    /\ UNCHANGED <<order_books_, next_order_id_, next_trade_id,
                   trade_sinks_, market_data_sinks_>>
    /\ UNCHANGED conc

\* The steps of one request after it has been parsed.
Ingest ==
    \/ process
    \/ processOrder
    \/ matchBuyOrder
    \/ matchBuyOrderEnd
    \/ matchSellOrder
    \/ matchSellOrderEnd
    \/ processOrderRest
    \/ broadcast_trades
    \/ broadcast_market_data
    \/ respond

Next ==
    \/ /\ next_order_id_ <= MaxOrders
       /\ \E symbol \in Symbols, type \in Types, side \in Sides,
             qty \in Qtys, price \in Prices :
             order_handler(symbol, type, side, qty, price)
    \/ Ingest

Spec == Init /\ [][Next]_vars

\* ------------------------------------------------------------ two symbols
\* One request handler, requests for two symbols.
SymSymbols == {"BTC-USDT", "ETH-USDT"}
SymTypes == {"Limit", "IOC"}
SymQtys == {1, 2}
SymPrices == {1, 2}

NextSymbols ==
    \/ /\ next_order_id_ <= MaxOrders
       /\ \E symbol \in SymSymbols, type \in SymTypes, side \in Sides,
             qty \in SymQtys, price \in SymPrices :
             order_handler(symbol, type, side, qty, price)
    \/ Ingest

SpecSymbols == Init /\ [][NextSymbols]_vars

\* ------------------------------------------------------ with subscribers
\* The two streaming endpoints: a connection registers its sink with the
\* engine, at any moment between the steps of a request.
MaxSinks == 1

\* The DataSink of a new connection.
new_sink == Len(written) + 1

\* MatchingEngine::add_trade_client, called by the /ws/trades provider: the
\* push_back is done holding mtx_.
add_trade_client ==
    /\ mtx_ = 0
    /\ trade_sinks_' = Append(trade_sinks_, new_sink)
    /\ written' = Append(written, <<>>)
    /\ UNCHANGED <<order_books_, next_order_id_, next_trade_id, pc, order, quantity,
                   trades, old_asks_depth, old_bids_depth, market_data_sinks_, cout>>
    /\ UNCHANGED conc

\* MatchingEngine::add_market_data_client, called by the /ws/marketdata provider.
add_market_data_client ==
    /\ mtx_ = 0
    /\ market_data_sinks_' = Append(market_data_sinks_, new_sink)
    /\ written' = Append(written, <<>>)
    /\ UNCHANGED <<order_books_, next_order_id_, next_trade_id, pc, order, quantity,
                   trades, old_asks_depth, old_bids_depth, trade_sinks_, cout>>
    /\ UNCHANGED conc

\* ------------------------------------------------- a book deeper than TopN
\* The engine after TopN + 1 Limit Buy orders at the prices 1..TopN + 1 and
\* one Limit Sell order above them, all of quantity q, have been ingested;
\* from there on requests and new subscribers arrive.
DeepOrders == 1
DeepPrices == {1, 2, TopN + 2}

DeepBook(symbol, q) ==
    [bids_ |-> [p \in 1..(TopN + 1) |-> <<Order(p, "Limit", "Buy", q, symbol, p)>>],
     asks_ |-> [p \in {TopN + 2} |-> <<Order(p, "Limit", "Sell", q, symbol, p)>>]]

InitDeep ==
    /\ \E q \in 1..MaxQty :
          order_books_ = [s \in Symbols |-> DeepBook(s, q)]
    /\ next_order_id_ = TopN + 3
    /\ next_trade_id = 1
    /\ pc = "idle"
    /\ order = NoOrder
    /\ quantity = 0
    /\ trades = <<>>
    /\ old_asks_depth = <<>>
    /\ old_bids_depth = <<>>
    /\ trade_sinks_ = <<>>
    /\ market_data_sinks_ = <<>>
    /\ written = <<>>
    /\ cout = <<>>
    /\ mtx_ = 0
    /\ threads = [t \in Threads |-> NoThread]

NextDeep ==
    \/ /\ next_order_id_ < TopN + 3 + DeepOrders
       /\ \E symbol \in Symbols, type \in Types, side \in Sides,
             qty \in Qtys, price \in DeepPrices :
             order_handler(symbol, type, side, qty, price)
    \/ Ingest
    \/ Len(trade_sinks_) < MaxSinks /\ add_trade_client
    \/ Len(market_data_sinks_) < MaxSinks /\ add_market_data_client

SpecDeep == InitDeep /\ [][NextDeep]_vars

\* ------------------------------------------------ requests running at once
\* The server hands each request to a thread of its pool: two request
\* threads run order_handler at once, on the engine's shared state. Each
\* thread's locals are threads[t]; a step is one access to shared state.
\* Each of the two threads serves one request.
ConcSinks == 2
ConcSymbols == {"BTC-USDT", "ETH-USDT"}
ConcTypes == {"Limit"}
ConcQtys == {1}
ConcPrices == {1, 2}

\* OrderBook::processOrder from entry to return, on (book, order, next_trade_id).
processOrderRun(b, o, tid) ==
    IF o.type = "FOK" /\ ~canFOKfill(b, o)
    THEN [book |-> b, order |-> o, trades |-> <<>>, tid |-> tid]
    ELSE LET r == IF o.side = "Buy"
                  THEN matchBuyOrderRun(o, b.asks_, <<>>, tid)
                  ELSE matchSellOrderRun(o, b.bids_, <<>>, tid)
             matched == IF o.side = "Buy" THEN [b EXCEPT !.asks_ = r.levels]
                                          ELSE [b EXCEPT !.bids_ = r.levels]
         IN [book |-> IF shouldRest(r.order) THEN addLimitOrder(matched, r.order)
                                             ELSE matched,
             order |-> r.order, trades |-> r.trades, tid |-> r.tid]

\* The sink list a broadcast on a channel iterates.
sinks_of(channel) ==
    IF channel = "trades" THEN trade_sinks_ ELSE market_data_sinks_

\* Variant: a write that fails ends the broadcast.
write_break(thr, sinks_, ok) ==
    IF ok
    THEN [thr EXCEPT !.si = IF thr.si < Len(sinks_) THEN thr.si + 1 ELSE 1,
                     !.msgs = IF thr.si < Len(sinks_) THEN @ ELSE Tail(@)]
    ELSE [thr EXCEPT !.failed = @ \cup {sinks_[thr.si]}, !.msgs = <<>>]

\* One sink->write() inside "for (auto sink : sinks_)": its result is not
\* looked at; the loop goes on to the next sink, and after the last sink to
\* the next message.
write(thr, sinks_, ok) ==
    [thr EXCEPT !.failed = IF ok THEN @ ELSE @ \cup {sinks_[thr.si]},
                !.si = IF thr.si < Len(sinks_) THEN thr.si + 1 ELSE 1,
                !.msgs = IF thr.si < Len(sinks_) THEN @ ELSE Tail(@)]

\* order_handler up to Order's constructor reading next_order_id_.
thread_order_handler(t, symbol, type, side, qty, price) ==
    /\ threads[t].pc = "idle"
    /\ threads' = [threads EXCEPT ![t] =
            [@ EXCEPT !.pc = "Order",
                      !.order = Order(next_order_id_, type, side, qty, symbol, price)]]
    /\ UNCHANGED <<order_books_, next_order_id_, next_trade_id, mtx_, cout>>
    /\ UNCHANGED <<handler, sinks>>

\* Order's constructor: next_order_id_++ stores the value read plus one.
thread_Order(t) ==
    /\ threads[t].pc = "Order"
    /\ next_order_id_' = threads[t].order.orderID + 1
    /\ threads' = [threads EXCEPT ![t].pc = "process"]
    /\ UNCHANGED <<order_books_, next_trade_id, mtx_, cout>>
    /\ UNCHANGED <<handler, sinks>>

\* MatchingEngine::process, up to the depth taken before processOrder.
thread_process(t) ==
    /\ threads[t].pc = "process"
    /\ LET symbol == threads[t].order.symbol
       IN /\ order_books_' =
                IF symbol \in DOMAIN order_books_ THEN order_books_
                ELSE [s \in DOMAIN order_books_ \cup {symbol} |->
                         IF s = symbol THEN EmptyBook ELSE order_books_[s]]
          /\ threads' = [threads EXCEPT ![t] =
                [@ EXCEPT !.pc = "processOrder",
                          !.old_asks_depth =
                              getBookDepthAsJson(order_books_'[symbol], TopN, "Sell"),
                          !.old_bids_depth =
                              getBookDepthAsJson(order_books_'[symbol], TopN, "Buy")]]
    /\ UNCHANGED <<next_order_id_, next_trade_id, mtx_, cout>>
    /\ UNCHANGED <<handler, sinks>>

\* MatchingEngine::process calls processOrder: no lock is taken for it.
thread_processOrder(t) ==
    /\ threads[t].pc = "processOrder"
    /\ LET symbol == threads[t].order.symbol
           r == processOrderRun(order_books_[symbol], threads[t].order, next_trade_id)
       IN /\ order_books_' = [order_books_ EXCEPT ![symbol] = r.book]
          /\ next_trade_id' = r.tid
          /\ threads' = [threads EXCEPT ![t] =
                [@ EXCEPT !.pc = "return", !.order = r.order, !.trades = r.trades]]
    /\ UNCHANGED <<next_order_id_, mtx_, cout>>
    /\ UNCHANGED <<handler, sinks>>

\* process after processOrder: without trades broadcast_trades is not called;
\* with trades it takes mtx_ and has the trade messages to write.
thread_broadcast_trades(t) ==
    /\ threads[t].pc = "return"
    /\ IF threads[t].trades = <<>>
       THEN /\ threads' = [threads EXCEPT ![t].pc = "depth"]
            /\ UNCHANGED <<mtx_, cout>>
       ELSE /\ mtx_ = 0
            /\ mtx_' = t
            /\ cout' = cout \o trade_messages(threads[t].trades)
            /\ threads' = [threads EXCEPT ![t] =
                  [@ EXCEPT !.pc = "broadcast", !.channel = "trades", !.si = 1,
                            !.msgs = IF trade_sinks_ = <<>> THEN <<>>
                                     ELSE trade_messages(threads[t].trades)]]
    /\ UNCHANGED <<order_books_, next_order_id_, next_trade_id>>
    /\ UNCHANGED <<handler, sinks>>

\* process takes the depth again and compares the dumps.
thread_depth(t) ==
    /\ threads[t].pc = "depth"
    /\ threads' = [threads EXCEPT ![t].pc =
            IF depth_changed(threads[t].old_asks_depth, threads[t].old_bids_depth,
                             order_books_[threads[t].order.symbol])
            THEN "broadcast_market_data" ELSE "respond"]
    /\ UNCHANGED <<order_books_, next_order_id_, next_trade_id, mtx_, cout>>
    /\ UNCHANGED <<handler, sinks>>

\* broadcast_market_data takes mtx_ and builds its message from the book.
thread_broadcast_market_data(t) ==
    /\ threads[t].pc = "broadcast_market_data"
    /\ mtx_ = 0
    /\ mtx_' = t
    /\ LET msg == data_json(threads[t].order.symbol,
                            order_books_[threads[t].order.symbol])
       IN /\ cout' = Append(cout, msg)
          /\ threads' = [threads EXCEPT ![t] =
                [@ EXCEPT !.pc = "broadcast", !.channel = "marketdata", !.si = 1,
                          !.msgs = IF market_data_sinks_ = <<>> THEN <<>>
                                   ELSE <<msg>>]]
    /\ UNCHANGED <<order_books_, next_order_id_, next_trade_id>>
    /\ UNCHANGED <<handler, sinks>>

\* Variant: mtx_ is let go after each write.
thread_write_unlocked(t, ok) ==
    /\ threads[t].pc = "broadcast"
    /\ threads[t].msgs # <<>>
    /\ LET sinks_ == sinks_of(threads[t].channel)
           sink == sinks_[threads[t].si]
       IN /\ written' = [written EXCEPT ![sink] = Append(@, Head(threads[t].msgs))]
          /\ threads' = [threads EXCEPT ![t] = write(@, sinks_, ok)]
    /\ mtx_' = 0
    /\ UNCHANGED <<order_books_, next_order_id_, next_trade_id, cout>>
    /\ UNCHANGED <<handler, trade_sinks_, market_data_sinks_>>

\* One sink->write(): the sink is handed the message; the call may fail.
thread_write(t, ok) ==
    /\ threads[t].pc = "broadcast"
    /\ threads[t].msgs # <<>>
    /\ LET sinks_ == sinks_of(threads[t].channel)
           sink == sinks_[threads[t].si]
       IN /\ written' = [written EXCEPT ![sink] = Append(@, Head(threads[t].msgs))]
          /\ threads' = [threads EXCEPT ![t] = write(@, sinks_, ok)]
    /\ UNCHANGED <<order_books_, next_order_id_, next_trade_id, mtx_, cout>>
    /\ UNCHANGED <<handler, trade_sinks_, market_data_sinks_>>

\* Variant: the broadcast returns without releasing mtx_.
thread_unlock_keeps(t) ==
    /\ threads[t].pc = "broadcast"
    /\ threads[t].msgs = <<>>
    /\ mtx_' = mtx_
    /\ cout' = <<>>
    /\ written' = [s \in DOMAIN written |-> <<>>]
    /\ threads' = [threads EXCEPT ![t] =
            [@ EXCEPT !.pc = IF threads[t].channel = "trades" THEN "depth" ELSE "respond",
                      !.channel = "none", !.si = 0, !.failed = {}]]
    /\ UNCHANGED <<order_books_, next_order_id_, next_trade_id>>
    /\ UNCHANGED <<handler, trade_sinks_, market_data_sinks_>>

\* The broadcast returns: the lock_guard releases mtx_.
thread_unlock(t) ==
    /\ threads[t].pc = "broadcast"
    /\ threads[t].msgs = <<>>
    /\ mtx_' = 0
    /\ cout' = <<>>
    /\ written' = [s \in DOMAIN written |-> <<>>]
    /\ threads' = [threads EXCEPT ![t] =
            [@ EXCEPT !.pc = IF threads[t].channel = "trades" THEN "depth" ELSE "respond",
                      !.channel = "none", !.si = 0, !.failed = {}]]
    /\ UNCHANGED <<order_books_, next_order_id_, next_trade_id>>
    /\ UNCHANGED <<handler, trade_sinks_, market_data_sinks_>>

\* order_handler writes the response and its locals go out of scope.
thread_respond(t) ==
    /\ threads[t].pc = "respond"
    /\ threads' = [threads EXCEPT ![t] = [NoThread EXCEPT !.pc = "done"]]
    /\ UNCHANGED <<order_books_, next_order_id_, next_trade_id, mtx_, cout>>
    /\ UNCHANGED <<handler, sinks>>

NextConc ==
    \/ \E t \in Threads, symbol \in ConcSymbols, type \in ConcTypes, side \in Sides,
          qty \in ConcQtys, price \in ConcPrices :
          thread_order_handler(t, symbol, type, side, qty, price)
    \/ \E t \in Threads : thread_Order(t)
    \/ \E t \in Threads : thread_process(t)
    \/ \E t \in Threads : thread_processOrder(t)
    \/ \E t \in Threads : thread_broadcast_trades(t)
    \/ \E t \in Threads : thread_depth(t)
    \/ \E t \in Threads : thread_broadcast_market_data(t)
    \/ \E t \in Threads, ok \in BOOLEAN : thread_write(t, ok)
    \/ \E t \in Threads : thread_unlock(t)
    \/ \E t \in Threads : thread_respond(t)
    \/ Len(written) < ConcSinks /\ add_trade_client
    \/ Len(written) < ConcSinks /\ add_market_data_client

SpecConc == Init /\ [][NextConc]_vars

\* ------------------------------------- requests at once on a filled book
\* The engine after three Limit Sell orders of quantity 1 at price 1 have
\* been ingested one after the other; from there on two request threads
\* each serve one request while subscribers arrive, so that one call can
\* make two trades while the other call makes one.
BatchSymbols == {"BTC-USDT"}
BatchTypes == {"Limit"}
BatchQtys == {1, 2}
BatchPrices == {1}

BatchBook(symbol) ==
    [bids_ |-> <<>>,
     asks_ |-> [p \in {1} |-> <<Order(1, "Limit", "Sell", 1, symbol, 1),
                                Order(2, "Limit", "Sell", 1, symbol, 1),
                                Order(3, "Limit", "Sell", 1, symbol, 1)>>]]

InitBatch ==
    /\ order_books_ = [s \in BatchSymbols |-> BatchBook(s)]
    /\ next_order_id_ = 4
    /\ next_trade_id = 1
    /\ pc = "idle"
    /\ order = NoOrder
    /\ quantity = 0
    /\ trades = <<>>
    /\ old_asks_depth = <<>>
    /\ old_bids_depth = <<>>
    /\ trade_sinks_ = <<>>
    /\ market_data_sinks_ = <<>>
    /\ written = <<>>
    /\ cout = <<>>
    /\ mtx_ = 0
    /\ threads = [t \in Threads |-> NoThread]

NextBatch ==
    \/ \E t \in Threads, symbol \in BatchSymbols, type \in BatchTypes, side \in Sides,
          qty \in BatchQtys, price \in BatchPrices :
          thread_order_handler(t, symbol, type, side, qty, price)
    \/ \E t \in Threads : thread_Order(t)
    \/ \E t \in Threads : thread_process(t)
    \/ \E t \in Threads : thread_processOrder(t)
    \/ \E t \in Threads : thread_broadcast_trades(t)
    \/ \E t \in Threads : thread_depth(t)
    \/ \E t \in Threads : thread_broadcast_market_data(t)
    \/ \E t \in Threads, ok \in BOOLEAN : thread_write(t, ok)
    \/ \E t \in Threads : thread_unlock(t)
    \/ \E t \in Threads : thread_respond(t)
    \/ Len(written) < ConcSinks /\ add_trade_client
    \/ Len(written) < ConcSinks /\ add_market_data_client

SpecBatch == InitBatch /\ [][NextBatch]_vars

\* A step of thread t once it has its request. The scheduler lets every
\* thread that can run do so in the end, and every sink write returns.
ThreadStep(t) ==
    \/ thread_Order(t)
    \/ thread_process(t)
    \/ thread_processOrder(t)
    \/ thread_broadcast_trades(t)
    \/ thread_depth(t)
    \/ thread_broadcast_market_data(t)
    \/ \E ok \in BOOLEAN : thread_write(t, ok)
    \/ thread_unlock(t)
    \/ thread_respond(t)

\* Two request threads and new subscribers, with requests for one symbol at
\* one price and quantity, from the empty engine: the second order of
\* opposite sides trades with the first.
NextFair ==
    \/ \E t \in Threads, symbol \in BatchSymbols, type \in BatchTypes, side \in Sides,
          qty \in ConcQtys, price \in BatchPrices :
          thread_order_handler(t, symbol, type, side, qty, price)
    \/ \E t \in Threads : ThreadStep(t)
    \/ Len(written) < ConcSinks /\ add_trade_client
    \/ Len(written) < ConcSinks /\ add_market_data_client

SpecConcFair ==
    Init /\ [][NextFair]_vars /\ \A t \in Threads : WF_vars(ThreadStep(t))

\* ------------------------------------------------------- views of the state
\* The book of symbol s within a books map (an absent book holds nothing).
BookAt(books, s) == IF s \in DOMAIN books THEN books[s] ELSE EmptyBook

\* The handler is between processOrder's return and the next request.
AfterIngest == pc \in {"return", "depth", "respond", "idle"}

\* processOrder is running for the current order.
InProcessOrder == pc \in {"processOrder", "match", "rest", "return"}

\* All orders resting on one side, as a set of records.
RestingOn(m) == UNION {{m[p][i] : i \in 1..Len(m[p])} : p \in DOMAIN m}

\* The side of the book an order matches against, and the one it rests on.
Opposite(b, o) == IF o.side = "Buy" THEN b.asks_ ELSE b.bids_
OwnSide(b, o) == IF o.side = "Buy" THEN b.bids_ ELSE b.asks_

\* Best level of the side opposite to order o, by key.
BestOpposite(b, o) ==
    IF o.side = "Buy" THEN Min(DOMAIN b.asks_) ELSE Max(DOMAIN b.bids_)

\* Price p is strictly worse than the limit of order o.
WorseThanLimit(o, p) == IF o.side = "Buy" THEN p > o.price ELSE p < o.price

\* The matching loop of order o's side would run one more iteration on b.
LoopRuns(o, b) ==
    IF o.side = "Buy" THEN BuyLoop(o, b.asks_) ELSE SellLoop(o, b.bids_)

\* A matching iteration has just appended a trade.
TradeStep == Len(trades') = Len(trades) + 1

\* --------------------------------------------------------------------- C1
\* C1: after every ingest the book is not crossed: when both sides hold
\* levels, the highest bid is strictly below the lowest ask.
NoCrossedBook ==
    AfterIngest =>
        \A s \in DOMAIN order_books_ :
            LET b == order_books_[s]
            IN (DOMAIN b.bids_ # {} /\ DOMAIN b.asks_ # {})
                   => Max(DOMAIN b.bids_) < Min(DOMAIN b.asks_)

\* A Limit order has just rested beside a non-empty opposite side.
NoCrossedBookWitness ==
    /\ pc = "return"
    /\ order.type = "Limit"
    /\ order \in RestingOn(OwnSide(book, order))
    /\ DOMAIN Opposite(book, order) # {}

\* --------------------------------------------------------------------- C2
\* C2: FOK atomicity. When processOrder returns for an FOK order, either its
\* trades sum to the full requested quantity or there are none; and while an
\* FOK order is being processed the book changes only in a step that adds a
\* trade, so an FOK order without trades has left the book as it found it.
FOKAtomicity ==
    /\ []((pc = "return" /\ order.type = "FOK")
            => (trades = <<>> \/ SumQty(trades) = quantity))
    /\ [][(order.type = "FOK" /\ InProcessOrder
             /\ BookAt(order_books_', order.symbol) # BookAt(order_books_, order.symbol))
            => TradeStep]_vars

\* An FOK order was rejected against a side that holds some quantity.
FOKAtomicityWitness ==
    /\ pc = "return"
    /\ order.type = "FOK"
    /\ trades = <<>>
    /\ quantity > 0
    /\ DOMAIN Opposite(book, order) # {}

\* --------------------------------------------------------------------- C3
\* Quantity resting within the limit of order o on side m.
RECURSIVE EligibleQty(_, _)
EligibleQty(o, m) ==
    IF DOMAIN m = {} THEN 0
    ELSE LET p == Min(DOMAIN m)
         IN (IF WorseThanLimit(o, p) THEN 0 ELSE SumQty(m[p]))
            + EligibleQty(o, erase(m, p))

\* C3: the FOK price bounds eligibility: the pre-check rejects an FOK order
\* when the quantity resting within its limit is below its quantity, and no
\* trade of an FOK order executes at a price worse than its limit.
FOKPriceBound ==
    /\ (pc = "processOrder" /\ order.type = "FOK"
          /\ EligibleQty(order, Opposite(book, order)) < order.quantity)
         => ~canFOKfill(book, order)
    /\ (InProcessOrder /\ order.type = "FOK")
         => \A i \in 1..Len(trades) : ~WorseThanLimit(order, trades[i].price)

\* --------------------------------------------------------------------- C4
\* The trades of o against book b, without their ids.
MatchTrades(o, b) ==
    LET r == IF o.side = "Buy"
             THEN matchBuyOrderRun(o, b.asks_, <<>>, 0)
             ELSE matchSellOrderRun(o, b.bids_, <<>>, 0)
    IN [i \in 1..Len(r.trades) |-> [r.trades[i] EXCEPT !.tradeID = 0]]

\* C4: an IOC order matches as the Limit order of the same side, price and
\* quantity would against the same book (same trades in the same order), and
\* its residual is not rested.
IOCMatchesAsLimit ==
    /\ (pc = "match" /\ order.type = "IOC" /\ trades = <<>>)
         => MatchTrades(order, book) = MatchTrades([order EXCEPT !.type = "Limit"], book)
    /\ (pc = "return" /\ order.type = "IOC")
         => order \notin RestingOn(OwnSide(book, order))

\* --------------------------------------------------------------------- C5
\* C5: a Limit order never trades at a price worse than its limit, and the
\* loop does not run while the best opposite level is worse than the limit,
\* whatever quantity the taker has left.
LimitPriceBound ==
    /\ (InProcessOrder /\ order.type = "Limit")
         => \A i \in 1..Len(trades) : ~WorseThanLimit(order, trades[i].price)
    /\ (pc = "match" /\ order.type = "Limit"
          /\ DOMAIN Opposite(book, order) # {}
          /\ WorseThanLimit(order, BestOpposite(book, order)))
         => ~LoopRuns(order, book)

\* A Limit order traded, then stopped at a worse level with quantity left.
LimitPriceBoundWitness ==
    /\ pc = "rest"
    /\ order.type = "Limit"
    /\ trades # <<>>
    /\ order.quantity > 0
    /\ DOMAIN Opposite(book, order) # {}
    /\ WorseThanLimit(order, BestOpposite(book, order))

\* --------------------------------------------------------------------- C6
\* C6: price-time priority. The maker of every trade is the head of the queue
\* of the best opposite level at that moment, every order behind it in that
\* queue arrived later (has a larger id), and every other resting order of
\* the opposite side is left exactly as it was by that trade.
PriceTimePriority ==
    [][TradeStep =>
        LET t == trades'[Len(trades')]
            opp == Opposite(book, order)
            best == BestOpposite(book, order)
            maker == Head(opp[best])
            after == Opposite(BookAt(order_books_', order.symbol), order)
        IN /\ t.makerOrderID = maker.orderID
           /\ \A i \in 2..Len(opp[best]) : opp[best][i].orderID > maker.orderID
           /\ (RestingOn(opp) \ {maker}) \subseteq RestingOn(after)
           /\ \A p \in DOMAIN opp \ {best} : p \in DOMAIN after /\ after[p] = opp[p]
      ]_vars

\* A taker swept a first resting order and then hit a second one queued
\* behind it at the same price.
PriceTimePriorityWitness ==
    /\ pc = "match"
    /\ Len(trades) = 2
    /\ trades[1].price = trades[2].price
    /\ trades[1].makerOrderID < trades[2].makerOrderID

\* --------------------------------------------------------------------- C7
\* C7: maker pricing. Every trade's price is the key of the level its maker
\* was resting at, its maker id is that resting order's, its taker id and
\* aggressor side are the incoming order's.
MakerPricing ==
    [][TradeStep =>
        LET t == trades'[Len(trades')]
            opp == Opposite(book, order)
        IN /\ \E p \in DOMAIN opp : \E i \in 1..Len(opp[p]) :
                  opp[p][i].orderID = t.makerOrderID /\ t.price = p
           /\ t.takerOrderID = order.orderID
           /\ t.makerOrderID # order.orderID
           /\ t.aggressorSide = order.side
      ]_vars

\* A Limit order traded at a maker price that differs from its own price.
MakerPricingWitness ==
    /\ pc = "return"
    /\ order.type = "Limit"
    /\ trades # <<>>
    /\ trades[1].price # order.price

\* --------------------------------------------------------------------- C8
\* The resting orders of side m whose id is id.
WithId(m, id) == {o \in RestingOn(m) : o.orderID = id}

\* C8: quantity conservation. Each trade's quantity is positive, is the
\* minimum of what taker and maker had left, and is taken off both; during
\* one processOrder call the trades sum to what the taker lost and the
\* opposite side loses exactly what is traded; no remaining quantity grows
\* or goes below zero.
QuantityConservation ==
    /\ [](InProcessOrder => SumQty(trades) = quantity - order.quantity)
    /\ [](order.quantity >= 0
          /\ \A s \in DOMAIN order_books_ :
                \A o \in RestingOn(order_books_[s].bids_)
                         \cup RestingOn(order_books_[s].asks_) : o.quantity >= 0)
    /\ [][TradeStep =>
            LET t == trades'[Len(trades')]
                opp == Opposite(book, order)
                maker == Head(opp[BestOpposite(book, order)])
                after == Opposite(BookAt(order_books_', order.symbol), order)
            IN /\ t.quantity > 0
               /\ t.quantity = min(order.quantity, maker.quantity)
               /\ order'.quantity = order.quantity - t.quantity
               /\ IF maker.quantity = t.quantity
                  THEN WithId(after, maker.orderID) = {}
                  ELSE WithId(after, maker.orderID)
                         = {[maker EXCEPT !.quantity = @ - t.quantity]}
         ]_vars
    /\ [][(pc \in {"processOrder", "match", "rest"}) =>
            LET before == BookAt(order_books_, order.symbol)
                after == BookAt(order_books_', order.symbol)
            IN /\ SideQty(Opposite(after, order))
                    = SideQty(Opposite(before, order))
                        - (SumQty(trades') - SumQty(trades))
               /\ order'.quantity <= order.quantity
               /\ \A o \in RestingOn(after.bids_) \cup RestingOn(after.asks_) :
                     /\ \A r \in WithId(before.bids_, o.orderID)
                                 \cup WithId(before.asks_, o.orderID) :
                           o.quantity <= r.quantity
                     /\ o.orderID = order.orderID => o.quantity <= order.quantity
         ]_vars

\* A taker was filled in full by a maker that keeps part of its quantity.
QuantityConservationWitness ==
    /\ pc = "return"
    /\ trades # <<>>
    /\ order.quantity = 0
    /\ WithId(Opposite(book, order), trades[Len(trades)].makerOrderID) # {}

\* --------------------------------------------------------------------- C9
\* C9: every order resting in any book is a Limit order; a Market, IOC or
\* FOK order is never put in a price level, whatever it has left.
NoRestForEphemeralTypes ==
    \A s \in DOMAIN order_books_ :
        \A o \in RestingOn(order_books_[s].bids_) \cup RestingOn(order_books_[s].asks_) :
            o.type = "Limit"

\* A Market or IOC order came back with quantity left after trading.
NoRestForEphemeralTypesWitness ==
    /\ pc = "return"
    /\ order.type \in {"Market", "IOC"}
    /\ trades # <<>>
    /\ order.quantity > 0

\* -------------------------------------------------------------------- C10
\* C10: after every processOrder call every level present holds at least one
\* order, every resting order has quantity above zero, and every resting
\* order's price is the key of its level.
BookWellFormed ==
    AfterIngest =>
        \A s \in DOMAIN order_books_ :
            \A m \in {order_books_[s].bids_, order_books_[s].asks_} :
                \A p \in DOMAIN m :
                    /\ m[p] # <<>>
                    /\ \A i \in 1..Len(m[p]) :
                          m[p][i].quantity > 0 /\ m[p][i].price = p

\* Matching emptied a level, which is gone, while another order still rests.
BookWellFormedWitness ==
    /\ pc = "return"
    /\ trades # <<>>
    /\ trades[Len(trades)].price \notin DOMAIN Opposite(book, order)
    /\ DOMAIN Opposite(book, order) # {}

\* -------------------------------------------------------------------- C11
\* C11: when processOrder is done matching, a Limit order with quantity left
\* is appended to the tail of the queue at its own price on its own side
\* (the level is created if absent), as it is: its id and its residual
\* quantity; nothing else in the book changes. A Limit order that is filled
\* in full, like any other order, leaves the book as matching left it.
LimitResidualRests ==
    [][(pc = "rest" /\ pc' # "rest") =>
        LET before == BookAt(order_books_, order.symbol)
            after == BookAt(order_books_', order.symbol)
            own == OwnSide(before, order)
            own2 == OwnSide(after, order)
        IN IF order.type = "Limit" /\ order.quantity > 0
           THEN /\ Opposite(after, order) = Opposite(before, order)
                /\ DOMAIN own2 = DOMAIN own \cup {order.price}
                /\ \A p \in DOMAIN own \ {order.price} : own2[p] = own[p]
                /\ own2[order.price] =
                     (IF order.price \in DOMAIN own THEN own[order.price] ELSE <<>>)
                        \o <<order>>
                /\ order' = order
           ELSE after = before
      ]_vars

\* A Limit order was filled in part and its residual is now the tail of the
\* level at its price.
LimitResidualRestsWitness ==
    /\ pc = "return"
    /\ order.type = "Limit"
    /\ trades # <<>>
    /\ 0 < order.quantity /\ order.quantity < quantity
    /\ order.price \in DOMAIN OwnSide(book, order)
    /\ OwnSide(book, order)[order.price][Len(OwnSide(book, order)[order.price])] = order

\* -------------------------------------------------------------------- C12
\* C12: a Market order matches whatever its price field says: when
\* processOrder returns for it, either it has no quantity left or the
\* opposite side is empty; and no step of its processing changes its own
\* side of the book.
MarketIgnoresPrice ==
    /\ []((pc = "return" /\ order.type = "Market")
            => (order.quantity = 0 \/ DOMAIN Opposite(book, order) = {}))
    /\ [][(order.type = "Market" /\ InProcessOrder)
            => OwnSide(BookAt(order_books_', order.symbol), order)
                 = OwnSide(BookAt(order_books_, order.symbol), order)]_vars

\* A Market order traded at a price that a limit at its price field would
\* have refused.
MarketIgnoresPriceWitness ==
    /\ pc = "return"
    /\ order.type = "Market"
    /\ trades # <<>>
    /\ WorseThanLimit(order, trades[1].price)

\* -------------------------------------------------------------------- C18
\* The price of the level of rank i (1 = best) on one side of a book.
LevelAt(m, side, i) ==
    CHOOSE p \in DOMAIN m :
        Cardinality({q \in DOMAIN m : IF side = "Buy" THEN q > p ELSE q < p}) = i - 1

\* The levels of side `side` of book b.
SideOf(b, side) == IF side = "Buy" THEN b.bids_ ELSE b.asks_

\* The l2update messages among a sequence of messages.
L2Updates(msgs) == SelectSeq(msgs, LAMBDA m : m.type = "l2update")

\* The trade events among a sequence of messages.
TradeEvents(msgs) == SelectSeq(msgs, LAMBDA m : m.type = "trade")

\* The decimal string (in millionths) spells exactly the number x.
Spells(str, x) == str * 32768 = x * 15625

\* C18: for every book, side and n >= 0, getBookDepthAsJson returns the first
\* min(n, number of levels) levels of the side in priority order, each as the
\* pair of six-decimal strings std::to_string makes of the level's price and
\* of the sum of the quantities resting there; the strings of the prices are
\* ordered, and the steps that take the depth leave the books as they are.
DepthQuery ==
    /\ [](\A s \in DOMAIN order_books_ : \A side \in Sides : \A n \in 0..MaxOrders :
            LET m == SideOf(order_books_[s], side)
                d == getBookDepthAsJson(order_books_[s], n, side)
            IN /\ Len(d) = min(n, Cardinality(DOMAIN m))
               /\ \A i \in 1..Len(d) :
                     LET p == LevelAt(m, side, i)
                     IN d[i] = <<to_string(p), to_string(SumQty(m[p]))>>
               /\ \A i \in 1..(Len(d) - 1) :
                     IF side = "Buy" THEN d[i][1] >= d[i + 1][1]
                                     ELSE d[i][1] <= d[i + 1][1])
    /\ [][(pc \in {"process", "depth"})
            => (\A s \in DOMAIN order_books_ : order_books_'[s] = order_books_[s])]_vars

\* An l2update lists two bid levels, one of which holds two orders.
DepthQueryWitness ==
    /\ pc = "respond"
    /\ \E i \in 1..Len(cout) :
          /\ cout[i].type = "l2update"
          /\ Len(cout[i].bids) = 2
    /\ \E p \in DOMAIN book.bids_ : Len(book.bids_[p]) = 2

\* C18 as stated: each level comes with its price and with the sum of the
\* quantities resting there, and the prices are strictly ordered.
DepthQueryExact ==
    \A s \in DOMAIN order_books_ : \A side \in Sides : \A n \in 0..MaxOrders :
        LET m == SideOf(order_books_[s], side)
            d == getBookDepthAsJson(order_books_[s], n, side)
        IN /\ Len(d) = min(n, Cardinality(DOMAIN m))
           /\ \A i \in 1..Len(d) :
                 LET p == LevelAt(m, side, i)
                 IN Spells(d[i][1], p) /\ Spells(d[i][2], SumQty(m[p]))
           /\ \A i \in 1..(Len(d) - 1) :
                 IF side = "Buy" THEN d[i][1] > d[i + 1][1]
                                 ELSE d[i][1] < d[i + 1][1]

\* -------------------------------------------------------------------- C13
\* The rank (1 = best) the price of order o has among the levels of its side.
RankOnOwnSide(b, o) ==
    1 + Cardinality({q \in DOMAIN OwnSide(b, o) :
                        IF o.side = "Buy" THEN q > o.price ELSE q < o.price})

\* The order of the current call has been left resting on the book.
Rested == order.type = "Limit" /\ order.quantity > 0

BeyondTenthLevel ==
    /\ pc = "respond"
    /\ trades = <<>> /\ Rested /\ RankOnOwnSide(book, order) > TopN
    /\ cout = <<>>

EventOrdering ==
    /\ [](\A i \in 1..Len(cout) :
            IF i <= Len(trades)
            THEN /\ cout[i].type = "trade"
                 /\ cout[i].trade_id = trades[i].tradeID
                 /\ cout[i].price = trades[i].price
                 /\ cout[i].quantity = trades[i].quantity
            ELSE /\ cout[i].type = "l2update"
                 /\ i = Len(cout))
    /\ [](cout # <<>> => Len(cout) >= Len(trades))
    /\ [](\A i \in 1..Len(trade_sinks_) :
            written[trade_sinks_[i]] \in {<<>>, TradeEvents(cout)})
    /\ [](\A i \in 1..Len(market_data_sinks_) :
            /\ written[market_data_sinks_[i]]
                  \in {<<>>, L2Updates(cout)}
            /\ pc \notin {"respond"} => written[market_data_sinks_[i]] = <<>>)
    /\ [][(pc = "return" /\ pc' = "depth") =>
            (/\ Len(TradeEvents(cout')) = Len(trades)
             /\ \A i \in 1..Len(trade_sinks_) :
                   written'[trade_sinks_[i]] = TradeEvents(cout'))
      ]_vars

\* A call made two trades and changed the depth; the trade sink holds the two
\* trade events and the market data sink the l2update.
EventOrderingWitness ==
    /\ pc = "respond"
    /\ Len(trades) = 2
    /\ Len(cout) = 3
    /\ trade_sinks_ # <<>> /\ market_data_sinks_ # <<>>
    /\ Len(written[trade_sinks_[1]]) = 2
    /\ Len(written[market_data_sinks_[1]]) = 1

\* -------------------------------------------------------------------- C19
\* C19: getBBO yields the highest bid and the lowest ask exactly when both
\* sides hold levels; an l2update carries them as numbers in that case and
\* null for both otherwise, and its bids and asks are the top-10 depth of the
\* book as the call left it.
BBOReporting ==
    /\ \A s \in DOMAIN order_books_ :
          LET b == order_books_[s]
          IN IF DOMAIN b.bids_ # {} /\ DOMAIN b.asks_ # {}
             THEN getBBO(b) = <<Max(DOMAIN b.bids_), Min(DOMAIN b.asks_)>>
             ELSE getBBO(b) = <<>>
    /\ \A i \in 1..Len(cout) :
          cout[i].type = "l2update" =>
             /\ cout[i].symbol = order.symbol
             /\ IF DOMAIN book.bids_ # {} /\ DOMAIN book.asks_ # {}
                THEN /\ cout[i].best_bid = Number(Max(DOMAIN book.bids_))
                     /\ cout[i].best_ask = Number(Min(DOMAIN book.asks_))
                ELSE /\ cout[i].best_bid = Null
                     /\ cout[i].best_ask = Null
             /\ cout[i].bids = getBookDepthAsJson(book, TopN, "Buy")
             /\ cout[i].asks = getBookDepthAsJson(book, TopN, "Sell")

\* A call has emptied the asks: its l2update carries nulls beside ten bids.
BBOReportingWitness ==
    /\ pc = "respond"
    /\ DOMAIN book.asks_ = {}
    /\ \E i \in 1..Len(cout) :
          /\ cout[i].type = "l2update"
          /\ cout[i].best_bid = Null
          /\ Len(cout[i].bids) = TopN

\* -------------------------------------------------------------------- C15
\* Thread t is between the depth it takes before processOrder and the depth
\* it takes after it.
InCall(t) ==
    \/ threads[t].pc \in {"processOrder", "return", "depth"}
    \/ threads[t].pc = "broadcast" /\ threads[t].channel = "trades"

\* C15: calls for the same symbol are serialized: two threads are never both
\* between their pre-image and their post-image of the same book.
SameSymbolSerialized ==
    \A t1 \in Threads : \A t2 \in Threads \ {t1} :
        (InCall(t1) /\ InCall(t2))
            => threads[t1].order.symbol # threads[t2].order.symbol

\* -------------------------------------------------------------------- C16
\* Thread t holds an Order that has been constructed.
HasOrder(t) == threads[t].pc \notin {"idle", "Order", "done"}

\* C16: no two orders receive the same order id, and the counter is ahead of
\* every id it has issued.
OrderIdsUnique ==
    /\ \A t1 \in Threads : \A t2 \in Threads \ {t1} :
          (HasOrder(t1) /\ HasOrder(t2))
              => threads[t1].order.orderID # threads[t2].order.orderID
    /\ \A t \in Threads : HasOrder(t) => threads[t].order.orderID < next_order_id_

\* -------------------------------------------------------------------- C17
\* Thread t has events to broadcast and is about to take mtx_ for them.
AtBroadcast(t) ==
    \/ threads[t].pc = "return" /\ threads[t].trades # <<>>
    \/ threads[t].pc = "broadcast_market_data"

\* C17: while one thread's broadcast is in a sink write, a thread with events
\* of another symbol to broadcast can take its next step.
OtherSymbolNotStalled ==
    \A t1 \in Threads : \A t2 \in Threads \ {t1} :
        (/\ mtx_ = t1
         /\ threads[t1].msgs # <<>>
         /\ AtBroadcast(t2)
         /\ threads[t1].order.symbol # threads[t2].order.symbol)
            => ENABLED (thread_broadcast_trades(t2) \/ thread_broadcast_market_data(t2))

\* -------------------------------------------------------------------- C20
\* The list s is the list s2 or a beginning of it.
IsPrefix(s, s2) == Len(s) <= Len(s2) /\ SubSeq(s2, 1, Len(s)) = s

\* C20: when a broadcast has gone through its list, every sink of the list has
\* been handed each payload of the broadcast once, whatever its writes
\* returned; each write goes to the first sink of the list that is a payload
\* behind; the sink lists do not change while mtx_ is held, and only grow.
FanOut ==
    /\ [](\A t \in Threads :
            (threads[t].pc = "broadcast" /\ threads[t].msgs = <<>>) =>
                \A i \in 1..Len(sinks_of(threads[t].channel)) :
                    written[sinks_of(threads[t].channel)[i]] = cout)
    /\ [][\A t \in Threads :
            (mtx_ = t /\ written' # written /\ mtx_' = t) =>
                LET sinks_ == sinks_of(threads[t].channel)
                IN \E i \in 1..Len(sinks_) :
                      /\ written' = [written EXCEPT ![sinks_[i]] =
                                        Append(@, Head(threads[t].msgs))]
                      /\ \A j \in 1..(i - 1) :
                            Len(written[sinks_[j]]) = Len(written[sinks_[i]]) + 1
                      /\ \A j \in (i + 1)..Len(sinks_) :
                            Len(written[sinks_[j]]) = Len(written[sinks_[i]])
      ]_vars
    /\ [][mtx_ # 0 => /\ trade_sinks_' = trade_sinks_
                      /\ market_data_sinks_' = market_data_sinks_]_vars
    /\ [][/\ IsPrefix(trade_sinks_, trade_sinks_')
          /\ IsPrefix(market_data_sinks_, market_data_sinks_')]_vars

\* A broadcast is through a list of two sinks: the write to the first failed,
\* the second has been handed the payload all the same.
FanOutWitness ==
    \E t \in Threads :
        /\ threads[t].pc = "broadcast"
        /\ threads[t].msgs = <<>>
        /\ Len(sinks_of(threads[t].channel)) = 2
        /\ sinks_of(threads[t].channel)[1] \in threads[t].failed
        /\ written[sinks_of(threads[t].channel)[2]] # <<>>

\* -------------------------------------------------------------------- C21
\* C21: a request whose quantity is not positive never reaches the engine:
\* no Order is built for it, so the handler is past parsing only with a
\* requested quantity that is positive.
ValidatedBeforeCore ==
    pc # "idle" => quantity > 0

RestingOpposite(b, o) == Cardinality(RestingOn(Opposite(b, o)))

\* What the matching loop has left to do: the resting orders it can still
\* remove, and the taker's quantity it can still bring to 0.
LoopMeasure(b, o) == RestingOpposite(b, o) + (IF o.quantity > 0 THEN 1 ELSE 0)

\* C26: every iteration of the matching loop removes the head order of the
\* best opposite level or brings the taker's quantity to 0, so the measure
\* above falls with every trade and the loop ends; the makers of the trades
\* of a call are different orders, and all but the last have left the book.
MatchingTerminates ==
    /\ [][TradeStep =>
            LET before == BookAt(order_books_, order.symbol)
                after == BookAt(order_books_', order.symbol)
            IN /\ \/ RestingOpposite(after, order) = RestingOpposite(before, order) - 1
                  \/ order'.quantity = 0
               /\ LoopMeasure(after, order') < LoopMeasure(before, order)
               /\ RestingOpposite(after, order) <= RestingOpposite(before, order)
      ]_vars
    /\ [](InProcessOrder =>
            /\ \A i \in 1..Len(trades) : \A j \in 1..Len(trades) :
                  i # j => trades[i].makerOrderID # trades[j].makerOrderID
            /\ \A i \in 1..(Len(trades) - 1) :
                  WithId(Opposite(book, order), trades[i].makerOrderID) = {}
            /\ Len(trades) <= next_order_id_ - 2)

\* A call made two trades; the maker of the second is still resting.
MatchingTerminatesWitness ==
    /\ pc = "return"
    /\ Len(trades) = 2
    /\ WithId(Opposite(book, order), trades[1].makerOrderID) = {}
    /\ WithId(Opposite(book, order), trades[2].makerOrderID) # {}

\* -------------------------------------------------------------------- C22
\* C22: the call for an order of symbol S makes the book of S if there is
\* none, empty, and that is the only way the set of books changes; no book is
\* ever removed; no step changes the book of another symbol; the orders
\* resting in a book, and so the makers an order meets, are of the book's
\* symbol; the trades of a call and the events it broadcasts carry S.
SymbolIsolation ==
    /\ [][\A s \in DOMAIN order_books_ :
            /\ s \in DOMAIN order_books_'
            /\ s # order.symbol => order_books_'[s] = order_books_[s]]_vars
    /\ [][IF pc = "process" /\ pc' = "processOrder"
          THEN /\ DOMAIN order_books_' = DOMAIN order_books_ \cup {order.symbol}
               /\ order.symbol \notin DOMAIN order_books_
                     => order_books_'[order.symbol] = EmptyBook
          ELSE DOMAIN order_books_' = DOMAIN order_books_]_vars
    /\ [](\A s \in DOMAIN order_books_ :
            \A o \in RestingOn(order_books_[s].bids_) \cup RestingOn(order_books_[s].asks_) :
                o.symbol = s)
    /\ [](\A i \in 1..Len(trades) : trades[i].symbol = order.symbol)
    /\ [](\A i \in 1..Len(cout) : cout[i].symbol = order.symbol)

\* An IOC order that met nothing has left an empty book for its symbol beside
\* the book of the other symbol, which holds an order.
SymbolIsolationWitness ==
    /\ pc = "respond"
    /\ order.type = "IOC"
    /\ trades = <<>>
    /\ book = EmptyBook
    /\ \E s \in DOMAIN order_books_ :
          s # order.symbol /\ order_books_[s] # EmptyBook

\* -------------------------------------------------------------------- C23
\* C23: a thread about to take mtx_ does not hold it; as long as a thread has
\* a request under way some thread can take a step, so the threads are never
\* all waiting; mtx_ is held only by a thread inside a broadcast, and every
\* request a thread has taken is answered in the end, its broadcasts over,
\* so that mtx_ comes free again for a subscribe.
DeadlockFree ==
    /\ [](\A t \in Threads : AtBroadcast(t) => mtx_ # t)
    /\ []((\E t \in Threads : threads[t].pc \notin {"idle", "done"})
             => ENABLED (\E t \in Threads : ThreadStep(t)))
    /\ [](mtx_ # 0 => threads[mtx_].pc = "broadcast")
    /\ \A t \in Threads : (threads[t].pc # "idle") ~> (threads[t].pc = "done")

\* One thread is in a sink write holding mtx_ while the other waits for it.
DeadlockFreeWitness ==
    \E t1 \in Threads : \E t2 \in Threads \ {t1} :
        /\ mtx_ = t1
        /\ threads[t1].msgs # <<>>
        /\ AtBroadcast(t2)

\* -------------------------------------------------------------------- C25
\* Thread t is inside broadcast_trades.
InTradeBatch(t) == threads[t].pc = "broadcast" /\ threads[t].channel = "trades"

\* C25: a thread inside broadcast_trades holds mtx_ from its first trade to
\* its last; what each trade sink has been handed since mtx_ was taken is the
\* leading part of that call's trade events, in order, as far as the loop has
\* come; while mtx_ is held the sink lists do not change and a sink is handed
\* only the next event of the holder; with mtx_ free no sink is handed
\* anything.
TradeBatchContiguous ==
    /\ [](\A t \in Threads : InTradeBatch(t) =>
            /\ mtx_ = t
            /\ \A i \in 1..Len(trade_sinks_) :
                  LET w == written[trade_sinks_[i]]
                      all == trade_messages(threads[t].trades)
                  IN /\ IsPrefix(w, all)
                     /\ Len(w) = Len(all) - Len(threads[t].msgs)
                                 + (IF threads[t].msgs # <<>> /\ i < threads[t].si
                                    THEN 1 ELSE 0))
    /\ [][((mtx_ # 0 /\ mtx_' = mtx_) =>
              (/\ trade_sinks_' = trade_sinks_
               /\ market_data_sinks_' = market_data_sinks_
               /\ DOMAIN written' = DOMAIN written
               /\ \A s \in DOMAIN written :
                     written'[s] # written[s] =>
                        /\ threads[mtx_].msgs # <<>>
                        /\ written'[s] = Append(written[s], Head(threads[mtx_].msgs))))
       ]_vars
    /\ [][((mtx_ = 0 /\ mtx_' = 0) =>
              \A s \in DOMAIN written : written'[s] = written[s])
       ]_vars

\* The trade batch of one call, of two trades, is over and its depth update
\* still to come, while the other call's trade event is being handed to the
\* trade sinks.
TradeBatchContiguousWitness ==
    \E t1 \in Threads : \E t2 \in Threads \ {t1} :
        /\ Len(threads[t1].trades) = 2
        /\ threads[t1].pc \in {"depth", "broadcast_market_data"}
        /\ trade_sinks_ # <<>>
        /\ mtx_ = t2
        /\ InTradeBatch(t2)
        /\ threads[t2].msgs # <<>>

====
